---- MODULE Spec2Model ----
(***************************************************************************)
(* Model of the Starsector extension (game-starsector/index.js): the game  *)
(* locator findGame, the installer probe testSupportedContent and the      *)
(* installer installContent with its comment-stripping regular expression. *)
(*                                                                         *)
(* Strings are TLA+ strings; characters are strings of length one.  Paths  *)
(* use one platform separator, written sep, as the host's file lists do.   *)
(* JavaScript values that may be undefined are tagged records: Str(s),     *)
(* Undefined, Null.                                                        *)
(***************************************************************************)
EXTENDS Integers, Sequences, FiniteSets, TLC

VARIABLES
    pc,                \* where the call in progress stands
    files,             \* the files argument of the probe or of install
    gameId,            \* the gameId argument of the probe
    registry,          \* what winapi.RegGetValue did in findGame
    contentPath,       \* installContent's contentPath
    basePath,          \* installContent's basePath
    outputPath,        \* installContent's outputPath
    parsed,            \* what reading and parsing the manifest gave
    attrInstructions,  \* the value the first then-callback resolves with
    result,            \* the promise installContent returns
    probe,             \* the value testSupportedContent resolves with
    located,           \* the promise findGame returns
    text,              \* a manifest text given to the comment stripper
    stripped           \* text.replace(COMMENT_STRIPPING_REGEX, "$1")

vars == <<pc, files, gameId, registry, contentPath, basePath, outputPath,
          parsed, attrInstructions, result, probe, located, text, stripped>>

(***************************************************************************)
(* Bounds of the model.                                                    *)
(***************************************************************************)
MaxFiles == 3
MaxText == 5

(***************************************************************************)
(* Constants of the program.                                               *)
(***************************************************************************)
GAME_ID == "starsector"
MOD_INFO_FILE == "mod_info.json"
sep == "/"

(***************************************************************************)
(* JavaScript values.                                                      *)
(***************************************************************************)
Undefined == [t |-> "undefined"]
Null == [t |-> "null"]
Str(s) == [t |-> "string", v |-> s]
IsStr(x) == x.t = "string"
RejectedPromise == [t |-> "promise", rejected |-> "DataInvalid"]

(***************************************************************************)
(* String primitives of JavaScript, on TLA+ strings.                       *)
(***************************************************************************)
At(s, i) == SubSeq(s, i, i)

\* s.substring(n): the characters from 0-based index n on.
Substring(s, n) == IF n >= Len(s) THEN "" ELSE SubSeq(s, n + 1, Len(s))

\* s.slice(a, b) for 0 <= a, b: the characters at 0-based indexes a .. b-1.
Slice(s, a, b) == IF a >= b THEN "" ELSE SubSeq(s, a + 1, b)

startsWith(s, p) == Len(p) <= Len(s) /\ SubSeq(s, 1, Len(p)) = p

endsWith(s, p) ==
    Len(p) <= Len(s) /\ SubSeq(s, Len(s) - Len(p) + 1, Len(s)) = p

\* s.indexOf(sub): the least 0-based index where sub occurs, or -1.
indexOf(s, sub) ==
    LET hits == {i \in 0..(Len(s) - Len(sub)) :
                    SubSeq(s, i + 1, i + Len(sub)) = sub}
    IN IF hits = {} THEN -1
       ELSE CHOOSE i \in hits : \A j \in hits : i <= j

WhiteSpace == {" ", "\t", "\n", "\r"}

RECURSIVE TrimStart(_)
TrimStart(s) ==
    IF Len(s) > 0 /\ At(s, 1) \in WhiteSpace
    THEN TrimStart(Substring(s, 1)) ELSE s

RECURSIVE TrimEnd(_)
TrimEnd(s) ==
    IF Len(s) > 0 /\ At(s, Len(s)) \in WhiteSpace
    THEN TrimEnd(Slice(s, 0, Len(s) - 1)) ELSE s

\* String.prototype.trim
trim(s) == TrimEnd(TrimStart(s))

(***************************************************************************)
(* Node's path module (one-separator platform).                            *)
(***************************************************************************)
\* path.basename(p): the loop scans from the end, skips trailing
\* separators, and stops at the first separator left of a name character.
RECURSIVE BasenameScan(_, _, _, _)
BasenameScan(p, i, matchedSlash, end) ==
    \* i is the 0-based index under the scan; end = -1 until a name
    \* character was seen.  Returns <<start, end>>.
    IF i < 0 THEN <<0, end>>
    ELSE IF At(p, i + 1) = sep
         THEN IF ~matchedSlash THEN <<i + 1, end>>
              ELSE BasenameScan(p, i - 1, matchedSlash, end)
         ELSE IF end = -1 THEN BasenameScan(p, i - 1, FALSE, i + 1)
              ELSE BasenameScan(p, i - 1, matchedSlash, end)

basename(p) ==
    LET r == BasenameScan(p, Len(p) - 1, TRUE, -1)
    IN IF r[2] = -1 THEN "" ELSE Slice(p, r[1], r[2])

\* path.dirname(p): the index of the last separator that has a name
\* character to its right, scanning down to index 1.
RECURSIVE DirnameScan(_, _, _)
DirnameScan(p, i, matchedSlash) ==
    IF i < 1 THEN -1
    ELSE IF At(p, i + 1) = sep
         THEN IF ~matchedSlash THEN i ELSE DirnameScan(p, i - 1, matchedSlash)
         ELSE DirnameScan(p, i - 1, FALSE)

dirname(p) ==
    IF Len(p) = 0 THEN "."
    ELSE LET hasRoot == At(p, 1) = sep
             end == DirnameScan(p, Len(p) - 1, TRUE)
         IN IF end = -1 THEN (IF hasRoot THEN sep ELSE ".")
            ELSE IF hasRoot /\ end = 1 THEN sep \o sep
            ELSE Slice(p, 0, end)

\* The segments of p between separators (empty segments included).
RECURSIVE SplitFrom(_, _, _)
SplitFrom(p, i, cur) ==
    IF i > Len(p) THEN <<cur>>
    ELSE IF At(p, i) = sep THEN <<cur>> \o SplitFrom(p, i + 1, "")
    ELSE SplitFrom(p, i + 1, cur \o At(p, i))

Split(p) == SplitFrom(p, 1, "")

\* normalizeString: drops empty and "." segments; ".." removes the segment
\* before it, or stays when there is none to remove and the path is relative.
RECURSIVE NormalizeSegs(_, _, _)
NormalizeSegs(segs, acc, allowAboveRoot) ==
    IF segs = <<>> THEN acc
    ELSE LET s == Head(segs)
             rest == Tail(segs)
         IN IF s = "" \/ s = "." THEN NormalizeSegs(rest, acc, allowAboveRoot)
            ELSE IF s = ".."
                 THEN IF acc # <<>> /\ acc[Len(acc)] # ".."
                      THEN NormalizeSegs(rest, SubSeq(acc, 1, Len(acc) - 1),
                                         allowAboveRoot)
                      ELSE IF allowAboveRoot
                           THEN NormalizeSegs(rest, Append(acc, ".."),
                                              allowAboveRoot)
                           ELSE NormalizeSegs(rest, acc, allowAboveRoot)
                 ELSE NormalizeSegs(rest, Append(acc, s), allowAboveRoot)

RECURSIVE JoinSegs(_)
JoinSegs(segs) ==
    IF segs = <<>> THEN ""
    ELSE IF Len(segs) = 1 THEN segs[1]
    ELSE segs[1] \o sep \o JoinSegs(Tail(segs))

\* path.normalize(p)
normalize(p) ==
    IF Len(p) = 0 THEN "."
    ELSE LET isAbsolute == At(p, 1) = sep
             trailingSeparator == At(p, Len(p)) = sep
             body == JoinSegs(NormalizeSegs(Split(p), <<>>, ~isAbsolute))
         IN IF Len(body) = 0
            THEN (IF isAbsolute THEN sep
                  ELSE IF trailingSeparator THEN "." \o sep ELSE ".")
            ELSE (IF isAbsolute THEN sep ELSE "") \o body
                 \o (IF trailingSeparator THEN sep ELSE "")

\* path.join(a, b) of two strings: the non-empty arguments joined by the
\* separator, then normalized.
join(a, b) ==
    LET joined == IF Len(a) = 0 THEN b
                  ELSE IF Len(b) = 0 THEN a
                  ELSE a \o sep \o b
    IN IF Len(joined) = 0 THEN "." ELSE normalize(joined)

(***************************************************************************)
(* COMMENT_STRIPPING_REGEX and data.replace(COMMENT_STRIPPING_REGEX, "$1"). *)
(*                                                                         *)
(*   ( (["'])(?:\\[\s\S]|.)*?\2                    quoted string   (kept)  *)
(*   | \#(?![*\#])(?:\\.|\[(?:\\.|.)\]|.)*?\# )    #...# on a line (kept)  *)
(*   | \#.*?$                                      # to end of line        *)
(*   | \#\*[\s\S]*?\*\#                            #* ... *#               *)
(*                                                                         *)
(* The first two alternatives are capture group 1, which the replacement   *)
(* "$1" writes back.  Each matcher returns the 1-based index of the last   *)
(* character of its match, or 0 when it does not match; alternatives are   *)
(* tried in the order written and a lazy quantifier tries what follows it  *)
(* before it takes one more item, as the backtracking matcher does.        *)
(***************************************************************************)
LineTerminators == {"\n", "\r"}

\* The regular expression's "." at index j: any character but a line
\* terminator.
Dot(s, j) == j <= Len(s) /\ At(s, j) \notin LineTerminators

\* (?:\\[\s\S]|.)*?\2 from index j, where q is the text of group 2.
RECURSIVE QuoteBody(_, _, _)
QuoteBody(s, j, q) ==
    IF j > Len(s) THEN 0
    ELSE IF At(s, j) = q THEN j
    ELSE LET escaped == IF At(s, j) = "\\" /\ j + 1 <= Len(s)
                        THEN QuoteBody(s, j + 2, q) ELSE 0
         IN IF escaped # 0 THEN escaped
            ELSE IF Dot(s, j) THEN QuoteBody(s, j + 1, q) ELSE 0

\* (?:\\.|\[(?:\\.|.)\]|.)*?\# from index j.
RECURSIVE HashBody(_, _)
HashBody(s, j) ==
    IF j > Len(s) THEN 0
    ELSE IF At(s, j) = "#" THEN j
    ELSE LET escaped == IF At(s, j) = "\\" /\ Dot(s, j + 1)
                        THEN HashBody(s, j + 2) ELSE 0
             classEsc == IF /\ At(s, j) = "["
                            /\ j + 3 <= Len(s)
                            /\ At(s, j + 1) = "\\"
                            /\ Dot(s, j + 2)
                            /\ At(s, j + 3) = "]"
                         THEN HashBody(s, j + 4) ELSE 0
             classDot == IF /\ At(s, j) = "["
                            /\ j + 2 <= Len(s)
                            /\ Dot(s, j + 1)
                            /\ At(s, j + 2) = "]"
                         THEN HashBody(s, j + 3) ELSE 0
         IN IF escaped # 0 THEN escaped
            ELSE IF classEsc # 0 THEN classEsc
            ELSE IF classDot # 0 THEN classDot
            ELSE IF Dot(s, j) THEN HashBody(s, j + 1) ELSE 0

\* .*?$ under the m flag, j being the last index matched so far: the match
\* ends before the next line terminator or at the end of the text.
RECURSIVE LineEnd(_, _)
LineEnd(s, j) ==
    IF j = Len(s) \/ At(s, j + 1) \in LineTerminators THEN j
    ELSE LineEnd(s, j + 1)

\* [\s\S]*?\*\# from index j.
RECURSIVE BlockBody(_, _)
BlockBody(s, j) ==
    IF j + 1 > Len(s) THEN 0
    ELSE IF At(s, j) = "*" /\ At(s, j + 1) = "#" THEN j + 1
    ELSE BlockBody(s, j + 1)

\* One attempt of the whole expression at index i: the end of the match
\* (0 for none) and whether group 1 took part in it.
MatchAt(s, i) ==
    LET c == At(s, i)
        quoted == IF c \in {"\"", "'"} THEN QuoteBody(s, i + 1, c) ELSE 0
        hashed == IF /\ c = "#"
                     /\ ~(i + 1 <= Len(s) /\ At(s, i + 1) \in {"*", "#"})
                  THEN HashBody(s, i + 1) ELSE 0
        line == IF c = "#" THEN LineEnd(s, i) ELSE 0
        block == IF c = "#" /\ i + 1 <= Len(s) /\ At(s, i + 1) = "*"
                 THEN BlockBody(s, i + 2) ELSE 0
    IN IF quoted # 0 THEN [end |-> quoted, group1 |-> TRUE]
       ELSE IF hashed # 0 THEN [end |-> hashed, group1 |-> TRUE]
       ELSE IF line # 0 THEN [end |-> line, group1 |-> FALSE]
       ELSE [end |-> block, group1 |-> FALSE]

\* The g flag: matches are found left to right, each search starting after
\* the previous match; unmatched characters are copied, a match is replaced
\* by "$1".
RECURSIVE ReplaceFrom(_, _)
ReplaceFrom(s, i) ==
    IF i > Len(s) THEN ""
    ELSE LET m == MatchAt(s, i)
         IN IF m.end = 0 THEN At(s, i) \o ReplaceFrom(s, i + 1)
            ELSE (IF m.group1 THEN SubSeq(s, i, m.end) ELSE "")
                 \o ReplaceFrom(s, m.end + 1)

StripComments(data) == ReplaceFrom(data, 1)

(***************************************************************************)
(* Promises and instructions.                                              *)
(***************************************************************************)
None == [t |-> "none"]
Resolved(v) == [status |-> "resolved", value |-> v, error |-> ""]
Rejected(e) == [status |-> "rejected", value |-> None, error |-> e]

Attribute(k, v) == [type |-> "attribute", key |-> k, value |-> v]
Copy(src, dst) == [type |-> "copy", source |-> src, destination |-> dst]

(***************************************************************************)
(* findGame                                                                *)
(***************************************************************************)
\* reg is what winapi.RegGetValue did: it threw (the key or value is not
\* there), or it returned undefined, or a {type, value} object.
findGame(reg) ==
    IF reg.t = "throw" THEN Rejected("RegistryError")
    ELSE IF reg.t = "undefined" THEN Rejected("Error")
    ELSE Resolved(reg.value)

(***************************************************************************)
(* testSupportedContent                                                    *)
(***************************************************************************)
\* A variant that compares the whole path with the manifest's name.
IsModInfo_WholePath(file) == file = MOD_INFO_FILE

IsModInfo(file) == basename(file) = MOD_INFO_FILE

\* files.find(file => path.basename(file) === MOD_INFO_FILE)
FindModInfo(fs) ==
    LET hits == {i \in 1..Len(fs) : IsModInfo(fs[i])}
    IN IF hits = {} THEN Undefined
       ELSE Str(fs[CHOOSE i \in hits : \A j \in hits : i <= j])

testSupportedContent(fs, gid) ==
    IF gid # GAME_ID
    THEN [supported |-> FALSE, requiredFiles |-> Undefined]
    ELSE LET found == FindModInfo(fs)
         IN [supported |-> found # Undefined,
             requiredFiles |-> [t |-> "array", v |-> <<found>>]]

(***************************************************************************)
(* installContent                                                          *)
(***************************************************************************)
Keys == {"id", "name", "version", "author"}

\* getAttr: parsed[key] throws on null and the catch returns ""; a missing
\* property of an object, and any property of a number, is undefined.
getAttr(p, key) ==
    IF p.t = "null" THEN Str("")
    ELSE IF p.t = "object" THEN p.f[key]
    ELSE Undefined

\* A variant that keeps the whole folder path of the manifest.
ComputeOutputPath_Dirname(cp) ==
    IF indexOf(cp, MOD_INFO_FILE) > 0
    THEN Str(dirname(cp))
    ELSE RejectedPromise

\* Lines 83-86: the conditional expression assigned to outputPath.
ComputeOutputPath(cp) ==
    IF indexOf(cp, MOD_INFO_FILE) > 0
    THEN Str(basename(dirname(cp)))
    ELSE RejectedPromise

\* Lines 56-119, the callback of readFileAsync, once rjson.parse returned p:
\* the promise it returns, and the outputPath it leaves.  Calling trim on a
\* value that is not a string throws a TypeError, which rejects the promise.
ParsedCallback(p, cp, out) ==
    IF getAttr(p, "id") = Undefined
    THEN [promise |-> Rejected("DataInvalid"), outputPath |-> out]
    ELSE IF ~IsStr(getAttr(p, "name")) \/ ~IsStr(getAttr(p, "version"))
    THEN [promise |-> Rejected("TypeError"),
          outputPath |-> ComputeOutputPath(cp)]
    ELSE [promise |-> Resolved(<<
              Attribute("customFileName", Str(trim(getAttr(p, "name").v))),
              Attribute("version", Str(trim(getAttr(p, "version").v))),
              Attribute("author", getAttr(p, "author"))>>),
          outputPath |-> ComputeOutputPath(cp)]

\* A variant of the filter without the test for directory entries.
IsCopied_NoDirCheck(file, base) == startsWith(file, base \o sep)

\* A variant of the map that writes every file into the output folder
\* under its bare name.
CopyInstruction_Flat(file, base, out) ==
    Copy(file, join(out, basename(file)))

\* The filter of line 123.
IsCopied(file, base) == startsWith(file, base \o sep) /\ ~endsWith(file, sep)

\* The map of lines 124-128; out is a string here.
CopyInstruction(file, base, out) ==
    Copy(file, join(out, Substring(file, Len(base) + 1)))

RECURSIVE MapCopy(_, _, _)
MapCopy(fs, base, out) ==
    IF fs = <<>> THEN <<>>
    ELSE <<CopyInstruction(Head(fs), base, out)>>
         \o MapCopy(Tail(fs), base, out)

\* Lines 121-130, the second then-callback: path.join throws a TypeError
\* for an argument that is not a string, which happens when a file passes
\* the filter while outputPath holds the rejected promise.
CopyCallback(attrs, fs, base, out) ==
    LET kept == SelectSeq(fs, LAMBDA f : IsCopied(f, base))
    IN IF kept # <<>> /\ ~IsStr(out) THEN Rejected("TypeError")
       ELSE Resolved(attrs \o (IF kept = <<>> THEN <<>>
                               ELSE MapCopy(kept, base, out.v)))

(***************************************************************************)
(* The inputs the model draws from.                                        *)
(***************************************************************************)
\* Package-relative paths as the host lists them; a trailing separator
\* marks a directory.
Paths ==
    { "mod_info.json", "data/foo.txt",
      "mod1/mod_info.json", "mod1/data/foo.txt", "mod1/data/",
      "a/mod1/mod_info.json", "a/mod1/x.txt",
      "mod10/x.txt",
      "mod_info.json/mod_info.json",
      "mod1/mod_info.json/" }

FileLists == UNION {[1..n -> Paths] : n \in 0..MaxFiles}

GameIds == {GAME_ID, "skyrim"}

RegOutcomes ==
    { [t |-> "throw"], Undefined,
      [t |-> "object", value |-> Str("")],
      [t |-> "object", value |-> Str("C:\\Games\\Starsector")] }

\* What rjson.parse can return for a manifest: null, a number, or an
\* object whose keys hold strings (a missing key reads as undefined).
Manifests ==
    { [t |-> "object",
       f |-> [id |-> i, name |-> n, version |-> v, author |-> a]] :
        i \in {Undefined, Str("mod1")},
        n \in {Undefined, Str("My Mod"), Str(" My Mod ")},
        v \in {Undefined, Str("1.0"), Str(" 1.0 ")},
        a \in {Undefined, Str("Alice"), Str(" Alice ")} }

ParseValues == {Null, [t |-> "number"]} \cup Manifests

Chars == {"\"", "'", "#", "\\", "*", "[", "]", "a", "\n"}

\* Every text of at most n characters.
RECURSIVE TextsUpTo(_)
TextsUpTo(n) ==
    IF n = 0 THEN {""}
    ELSE LET shorter == TextsUpTo(n - 1)
         IN shorter \cup {t \o c : t \in shorter, c \in Chars}

(***************************************************************************)
(* The state machine: one call at a time, from "idle" to "done".           *)
(***************************************************************************)
Init ==
    /\ pc = "idle"
    /\ files = <<>>
    /\ gameId = ""
    /\ registry = None
    /\ contentPath = Undefined
    /\ basePath = ""
    /\ outputPath = Undefined
    /\ parsed = None
    /\ attrInstructions = <<>>
    /\ result = None
    /\ probe = None
    /\ located = None
    /\ text = ""
    /\ stripped = ""

\* The host asks for the game's path: lines 18-31.
FindGame ==
    /\ pc = "idle"
    /\ \E reg \in RegOutcomes :
          /\ registry' = reg
          /\ located' = findGame(reg)
    /\ pc' = "located"
    /\ UNCHANGED <<files, gameId, contentPath, basePath, outputPath, parsed,
                   attrInstructions, result, probe, text, stripped>>

\* The host probes an archive: lines 33-43.
TestSupported ==
    /\ pc = "idle"
    /\ \E fs \in FileLists, gid \in GameIds :
          /\ files' = fs
          /\ gameId' = gid
          /\ probe' = testSupportedContent(fs, gid)
    /\ pc' = "probed"
    /\ UNCHANGED <<registry, contentPath, basePath, outputPath, parsed,
                   attrInstructions, result, located, text, stripped>>

\* installContent up to the read it awaits: lines 49-55.  With no manifest
\* in files, contentPath is undefined and path.dirname throws a TypeError,
\* which rejects the promise of the async function.
InstallCall ==
    /\ pc = "idle"
    /\ \E fs \in FileLists :
          /\ files' = fs
          /\ contentPath' = FindModInfo(fs)
          /\ IF FindModInfo(fs) = Undefined
             THEN /\ result' = Rejected("TypeError")
                  /\ pc' = "done"
                  /\ UNCHANGED <<basePath, outputPath>>
             ELSE /\ basePath' = dirname(FindModInfo(fs).v)
                  /\ outputPath' = Str(dirname(FindModInfo(fs).v))
                  /\ result' = None
                  /\ pc' = "reading"
    /\ UNCHANGED <<gameId, registry, parsed, attrInstructions, probe,
                   located, text, stripped>>

\* fs.readFileAsync fails: neither then-callback runs and the promise is
\* rejected with the read's error.
ReadFails ==
    /\ pc = "reading"
    /\ parsed' = [t |-> "unread"]
    /\ result' = Rejected("ReadError")
    /\ pc' = "done"
    /\ UNCHANGED <<files, gameId, registry, contentPath, basePath,
                   outputPath, attrInstructions, probe, located, text,
                   stripped>>

\* The read succeeds and rjson.parse throws: lines 61-64.  relaxed-json is
\* a library of its own: what it does with the stripped text is an input
\* here, and the stripping itself is checked under SpecStrip.  A path that
\* ends with the separator names a directory, whose read fails.
ParseFails ==
    /\ pc = "reading"
    /\ ~endsWith(contentPath.v, sep)
    /\ parsed' = [t |-> "throw"]
    /\ attrInstructions' = <<>>
    /\ pc' = "copying"
    /\ UNCHANGED <<files, gameId, registry, contentPath, basePath,
                   outputPath, result, probe, located, text, stripped>>

\* The read succeeds and rjson.parse returns a value: lines 56-119.
Parsed ==
    /\ pc = "reading"
    /\ ~endsWith(contentPath.v, sep)
    /\ \E p \in ParseValues :
          LET r == ParsedCallback(p, contentPath.v, outputPath)
          IN /\ parsed' = p
             /\ outputPath' = r.outputPath
             /\ IF r.promise.status = "rejected"
                THEN /\ result' = r.promise
                     /\ pc' = "done"
                     /\ UNCHANGED attrInstructions
                ELSE /\ attrInstructions' = r.promise.value
                     /\ pc' = "copying"
                     /\ UNCHANGED result
    /\ UNCHANGED <<files, gameId, registry, contentPath, basePath, probe,
                   located, text, stripped>>

\* The second then-callback: lines 121-130.
CopyFiles ==
    /\ pc = "copying"
    /\ result' = CopyCallback(attrInstructions, files, basePath, outputPath)
    /\ pc' = "done"
    /\ UNCHANGED <<files, gameId, registry, contentPath, basePath,
                   outputPath, parsed, attrInstructions, probe, located,
                   text, stripped>>

\* The call is over; nothing of it is kept.
Return ==
    /\ pc \in {"done", "probed", "located"}
    /\ pc' = "idle"
    /\ files' = <<>>
    /\ gameId' = ""
    /\ registry' = None
    /\ contentPath' = Undefined
    /\ basePath' = ""
    /\ outputPath' = Undefined
    /\ parsed' = None
    /\ attrInstructions' = <<>>
    /\ result' = None
    /\ probe' = None
    /\ located' = None
    /\ UNCHANGED <<text, stripped>>

Next ==
    \/ FindGame
    \/ TestSupported
    \/ InstallCall
    \/ ReadFails
    \/ ParseFails
    \/ Parsed
    \/ CopyFiles
    \/ Return

Spec == Init /\ [][Next]_vars

(***************************************************************************)
(* The comment stripper on its own, over every text up to MaxText          *)
(* characters.                                                             *)
(***************************************************************************)
InitStrip ==
    /\ pc = "text"
    /\ text \in TextsUpTo(MaxText)
    /\ stripped = ""
    /\ files = <<>>
    /\ gameId = ""
    /\ registry = None
    /\ contentPath = Undefined
    /\ basePath = ""
    /\ outputPath = Undefined
    /\ parsed = None
    /\ attrInstructions = <<>>
    /\ result = None
    /\ probe = None
    /\ located = None

\* Line 60: data.replace(COMMENT_STRIPPING_REGEX, "$1").
Strip ==
    /\ pc = "text"
    /\ stripped' = StripComments(text)
    /\ pc' = "stripped"
    /\ UNCHANGED <<files, gameId, registry, contentPath, basePath,
                   outputPath, parsed, attrInstructions, result, probe,
                   located, text>>

NextStrip == Strip

SpecStrip == InitStrip /\ [][NextStrip]_vars

(***************************************************************************)
(* Vocabulary of the properties.                                           *)
(***************************************************************************)
RECURSIVE DropTrailingSeps(_)
DropTrailingSeps(p) ==
    IF Len(p) > 0 /\ SubSeq(p, Len(p), Len(p)) = "/"
    THEN DropTrailingSeps(SubSeq(p, 1, Len(p) - 1)) ELSE p

\* The final segment of a path: what follows its last separator, trailing
\* separators aside.
FinalSegment(p) ==
    LET q == DropTrailingSeps(p)
        seps == {i \in 1..Len(q) : SubSeq(q, i, i) = "/"}
        last == IF seps = {} THEN 0
                ELSE CHOOSE i \in seps : \A j \in seps : j <= i
    IN IF last = Len(q) THEN "" ELSE SubSeq(q, last + 1, Len(q))

\* The indexes of the entries of fs named mod_info.json.
ManifestEntries(fs) ==
    {i \in 1..Len(fs) : FinalSegment(fs[i]) = "mod_info.json"}

\* The copy instructions, in the order of fs, of the entries that lie under
\* base and are not directory markers, written under the folder out.
RECURSIVE ExpectedCopies(_, _, _)
ExpectedCopies(fs, base, out) ==
    IF fs = <<>> THEN <<>>
    ELSE LET f == Head(fs)
             pre == base \o "/"
             under == /\ Len(f) > Len(pre)
                      /\ SubSeq(f, 1, Len(pre)) = pre
                      /\ SubSeq(f, Len(f), Len(f)) # "/"
         IN (IF under
             THEN <<[type |-> "copy", source |-> f,
                     destination |->
                        out \o "/" \o SubSeq(f, Len(pre) + 1, Len(f))]>>
             ELSE <<>>)
            \o ExpectedCopies(Tail(fs), base, out)

AttributeCount(is) == Cardinality({i \in 1..Len(is) : is[i].type = "attribute"})

\* The instructions is are attributes first and then exactly copies.
AttributesThen(is, copies) ==
    LET k == AttributeCount(is)
    IN /\ \A i \in 1..k : is[i].type = "attribute"
       /\ SubSeq(is, k + 1, Len(is)) = copies

ParseReturned == parsed.t \in {"null", "number", "object"}

HasId == parsed.t = "object" /\ parsed.f["id"] # Undefined

InFolder == contentPath # Undefined /\ indexOf(contentPath.v, MOD_INFO_FILE) > 0

AtRoot == contentPath # Undefined /\ indexOf(contentPath.v, MOD_INFO_FILE) = 0

\* The instruction of is that sets attribute k has the value v.
AttributeIs(is, k, v) ==
    \E i \in 1..Len(is) :
        is[i].type = "attribute" /\ is[i].key = k /\ is[i].value = v

\* Whether s holds a # outside a quoted string, reading quotes and
\* backslash escapes character by character; q is the open quote or "".
RECURSIVE HashOutsideQuotes(_, _, _)
HashOutsideQuotes(s, i, q) ==
    IF i > Len(s) THEN FALSE
    ELSE LET c == SubSeq(s, i, i)
         IN IF q = ""
            THEN IF c = "#" THEN TRUE
                 ELSE IF c = "\"" \/ c = "'"
                      THEN HashOutsideQuotes(s, i + 1, c)
                      ELSE HashOutsideQuotes(s, i + 1, "")
            ELSE IF c = "\\" THEN HashOutsideQuotes(s, i + 2, q)
                 ELSE IF c = q THEN HashOutsideQuotes(s, i + 1, "")
                 ELSE HashOutsideQuotes(s, i + 1, q)

C7Files == <<"mod1/mod_info.json", "mod1/data/foo.txt">>

C7Manifest ==
    [t |-> "object",
     f |-> [id |-> Str("mod1"), name |-> Str("My Mod"),
            version |-> Str("1.0"), author |-> Str("Alice")]]

(***************************************************************************)
(* The properties.                                                         *)
(***************************************************************************)

\* C1 (as claimed): an install whose manifest parses and has no id key is
\* rejected with InvalidPackageError (util.DataInvalid) and returns no
\* instructions.  Stated for a manifest inside a folder.
C1_NoIdRejects ==
    (pc = "done" /\ ParseReturned /\ ~HasId /\ InFolder)
        => result = Rejected("DataInvalid")

C3_MissingOptionalDefaults ==
    (/\ pc = "done"
     /\ HasId
     /\ InFolder
     /\ \E k \in {"name", "version", "author"} : parsed.f[k] = Undefined)
        => /\ result.status = "resolved"
           /\ parsed.f["name"] = Undefined
                => AttributeIs(result.value, "customFileName", Str(""))
           /\ parsed.f["version"] = Undefined
                => AttributeIs(result.value, "version", Str(""))
           /\ parsed.f["author"] = Undefined
                => AttributeIs(result.value, "author", Str(""))

C5_ProbeFindsManifest ==
    (pc = "probed" /\ gameId = GAME_ID)
        => /\ probe.supported <=> ManifestEntries(files) # {}
           /\ Cardinality(ManifestEntries(files)) = 1
                => \A i \in ManifestEntries(files) :
                      probe.requiredFiles =
                          [t |-> "array", v |-> <<Str(files[i])>>]

\* C5 witness: a probe of a list whose single manifest entry lies in a
\* folder, after another file.
C5_Witness ==
    /\ pc = "probed"
    /\ gameId = GAME_ID
    /\ files = <<"mod1/data/foo.txt", "mod1/mod_info.json">>
    /\ probe.supported

\* C6 (as claimed): a probe of a list with no entry named mod_info.json
\* answers supported = false and leaves requiredFiles undefined.
C6_NoManifestNoRequiredFiles ==
    (pc = "probed" /\ ManifestEntries(files) = {})
        => /\ probe.supported = FALSE
           /\ probe.requiredFiles = Undefined

\* C7 (as claimed): installing [mod1/mod_info.json, mod1/data/foo.txt] with
\* the manifest {id: mod1, name: My Mod, version: 1.0, author: Alice}
\* yields exactly three attribute instructions and the copy of foo.txt.
C7_FourInstructions ==
    (pc = "done" /\ files = C7Files /\ parsed = C7Manifest)
        => result = Resolved(<<
               [type |-> "attribute", key |-> "customFileName",
                value |-> Str("My Mod")],
               [type |-> "attribute", key |-> "version",
                value |-> Str("1.0")],
               [type |-> "attribute", key |-> "author",
                value |-> Str("Alice")],
               [type |-> "copy", source |-> "mod1/data/foo.txt",
                destination |-> "mod1/data/foo.txt"]>>)

\* C7 (amended): the same install yields exactly five instructions: the
\* three attribute instructions, the copy of mod1/mod_info.json onto
\* mod1/mod_info.json, and the copy of mod1/data/foo.txt onto
\* mod1/data/foo.txt.
C7_FiveInstructions ==
    (pc = "done" /\ files = C7Files /\ parsed = C7Manifest)
        => result = Resolved(<<
               [type |-> "attribute", key |-> "customFileName",
                value |-> Str("My Mod")],
               [type |-> "attribute", key |-> "version",
                value |-> Str("1.0")],
               [type |-> "attribute", key |-> "author",
                value |-> Str("Alice")],
               [type |-> "copy", source |-> "mod1/mod_info.json",
                destination |-> "mod1/mod_info.json"],
               [type |-> "copy", source |-> "mod1/data/foo.txt",
                destination |-> "mod1/data/foo.txt"]>>)

\* C7 witness: that install has returned.
C7_Witness ==
    pc = "done" /\ files = C7Files /\ parsed = C7Manifest

\* C8 (as claimed): after comment stripping no # outside a quoted string
\* remains in the text (every #...# span and every # to the end of a line
\* outside quotes is removed).
C8_NoHashLeft ==
    pc = "stripped" => ~HashOutsideQuotes(stripped, 1, "")

\* C9 (as claimed): an install whose manifest sits at the package root and
\* has an id is rejected with InvalidPackageError and returns no
\* instructions.  Stated for a manifest that holds all four keys.
C9_RootManifestRejects ==
    (/\ pc = "done"
     /\ AtRoot
     /\ HasId
     /\ \A k \in {"name", "version", "author"} : parsed.f[k] # Undefined)
        => result = Rejected("DataInvalid")

\* C10 (as claimed): findGame rejects when the registry key is absent or
\* the value stored under it is empty, and resolves only with a non-empty
\* string.
C10_LocatorNeverEmpty ==
    pc = "located"
        => /\ registry.t \in {"throw", "undefined"}
                => located.status = "rejected"
           /\ (registry.t = "object" /\ registry.value = Str(""))
                => located.status = "rejected"
           /\ located.status = "resolved"
                => (IsStr(located.value) /\ located.value.v # "")

====
